---- MODULE Spec2Model ----
(***************************************************************************)
(* ST7735 display driver (src/old_c/ST7735.c): the table-driven            *)
(* initialization sequencer, the geometry/addressing state and the clipped *)
(* drawing primitives, with the transport (command byte, data byte, delay, *)
(* chip select, reset line) recorded as a trace.                           *)
(***************************************************************************)
EXTENDS Integers, Sequences, FiniteSets

(***************************************************************************)
(* Constants of ST7735.h (panel size, variant selectors, opcodes).         *)
(***************************************************************************)
ST7735_TFTWIDTH == 128
ST7735_TFTHEIGHT == 160

INITR_GREENTAB == 0
INITR_REDTAB == 1
INITR_BLACKTAB == 2

ST7735_SWRESET == 1
ST7735_SLPOUT == 17
ST7735_NORON == 19
ST7735_INVOFF == 32
ST7735_DISPON == 41
ST7735_CASET == 42
ST7735_RASET == 43
ST7735_RAMWR == 44
ST7735_MADCTL == 54
ST7735_COLMOD == 58
ST7735_FRMCTR1 == 177
ST7735_FRMCTR2 == 178
ST7735_FRMCTR3 == 179
ST7735_INVCTR == 180
ST7735_PWCTR1 == 192
ST7735_PWCTR2 == 193
ST7735_PWCTR3 == 194
ST7735_PWCTR4 == 195
ST7735_PWCTR5 == 196
ST7735_VMCTR1 == 197
ST7735_GMCTRP1 == 224
ST7735_GMCTRN1 == 225

(* #define DELAY 0x80 *)
DELAY == 128

(* MADCTL bit flags *)
MADCTL_MY == 128
MADCTL_MX == 64
MADCTL_MV == 32
MADCTL_ML == 16
MADCTL_RGB == 0
MADCTL_BGR == 8
MADCTL_MH == 4

(***************************************************************************)
(* Integer types of the C code.  Conversions to a narrower type are        *)
(* modular (arm-none-eabi-gcc: conversion to a signed type wraps).         *)
(***************************************************************************)
INT16_MIN == -32768
INT16_MAX == 32767

U8(v) == v % 256
U16(v) == v % 65536
I16(v) == ((v + 32768) % 65536) - 32768

(* a | b for bytes whose set bits are disjoint or equal: bitwise OR *)
RECURSIVE BitOr(_, _)
BitOr(a, b) ==
    IF a = 0 THEN b
    ELSE IF b = 0 THEN a
    ELSE (IF (a % 2 = 1) \/ (b % 2 = 1) THEN 1 ELSE 0) + 2 * BitOr(a \div 2, b \div 2)

RECURSIVE BitXor(_, _)
BitXor(a, b) ==
    IF a = 0 THEN b
    ELSE IF b = 0 THEN a
    ELSE (IF (a % 2) # (b % 2) THEN 1 ELSE 0) + 2 * BitXor(a \div 2, b \div 2)

(***************************************************************************)
(* Transport port (declared in _rust.h): one record per operation.         *)
(***************************************************************************)
st7735_send_cmd(b) == <<"cmd", U8(b)>>
st7735_send_data(b) == <<"data", U8(b)>>
delay_ms(ms) == <<"delay", U16(ms)>>
lcd_cs0 == <<"cs", 0>>
lcd_rst0 == <<"rst", 0>>
lcd_rst1 == <<"rst", 1>>

(***************************************************************************)
(* Command tables.                                                         *)
(***************************************************************************)
Rcmd1 ==
    << 15,
       ST7735_SWRESET, DELAY, 150,
       ST7735_SLPOUT, DELAY, 255,
       ST7735_FRMCTR1, 3, 1, 44, 45,
       ST7735_FRMCTR2, 3, 1, 44, 45,
       ST7735_FRMCTR3, 6, 1, 44, 45, 1, 44, 45,
       ST7735_INVCTR, 1, 7,
       ST7735_PWCTR1, 3, 162, 2, 132,
       ST7735_PWCTR2, 1, 197,
       ST7735_PWCTR3, 2, 10, 0,
       ST7735_PWCTR4, 2, 138, 42,
       ST7735_PWCTR5, 2, 138, 238,
       ST7735_VMCTR1, 1, 14,
       ST7735_INVOFF, 0,
       ST7735_MADCTL, 1, 192,
       ST7735_COLMOD, 1 + DELAY, 5, 10 >>

Rcmd2green ==
    << 2,
       ST7735_CASET, 4, 0, 2, 0, 127 + 2,
       ST7735_RASET, 4, 0, 1, 0, 159 + 1 >>

Rcmd2red ==
    << 2,
       ST7735_CASET, 4, 0, 0, 0, 127,
       ST7735_RASET, 4, 0, 0, 0, 159 >>

Rcmd3 ==
    << 4,
       ST7735_GMCTRP1, 16,
       2, 28, 7, 18, 55, 50, 41, 45, 41, 37, 43, 57, 0, 1, 3, 16,
       ST7735_GMCTRN1, 16,
       3, 29, 7, 6, 46, 44, 41, 45, 46, 46, 55, 63, 0, 0, 2, 16,
       ST7735_NORON, DELAY, 10,
       ST7735_DISPON, DELAY, 100 >>

(***************************************************************************)
(* commandList: the sequencer.  addr is the 1-based read position in the   *)
(* table; the result is the transport trace and the final read position.   *)
(***************************************************************************)
\* the inner loop: while(numArgs--) send one argument byte, advancing addr
RECURSIVE commandArgs(_, _, _)
commandArgs(tbl, addr, numArgs) ==
    IF numArgs = 0 THEN <<>>
    ELSE <<st7735_send_data(tbl[addr])>> \o commandArgs(tbl, addr + 1, numArgs - 1)

\* mutant: the delay byte is used as it is, 255 included
commandDelay_NoSentinel(tbl, addr, ms) ==
    IF ms # 0 THEN <<delay_ms(tbl[addr])>> ELSE <<>>

\* the post-command delay: if(ms) read one byte; 255 means 500 ms; delay_ms(ms)
commandDelay(tbl, addr, ms) ==
    IF ms # 0
    THEN <<delay_ms(IF tbl[addr] = 255 THEN 500 ELSE tbl[addr])>>
    ELSE <<>>

\* the outer loop: while(numCommands--)
RECURSIVE commandLoop(_, _, _)
commandLoop(tbl, addr, numCommands) ==
    IF numCommands = 0 THEN [t |-> <<>>, addr |-> addr]
    ELSE LET ctl == tbl[addr + 1]
             ms == IF ctl >= DELAY THEN DELAY ELSE 0
             numArgs == ctl % DELAY
             after == addr + 2 + numArgs + (IF ms # 0 THEN 1 ELSE 0)
             rest == commandLoop(tbl, after, numCommands - 1)
         IN [t |-> <<st7735_send_cmd(tbl[addr])>>
                     \o commandArgs(tbl, addr + 2, numArgs)
                     \o commandDelay(tbl, addr + 2 + numArgs, ms)
                     \o rest.t,
             addr |-> rest.addr]

commandList(tbl) == commandLoop(tbl, 2, tbl[1])

(***************************************************************************)
(* commonInit: chip select, then the reset strategy chosen at build time   *)
(* (LCD_SOFT_RESET), then the command list.                                *)
(***************************************************************************)
\* mutant: the command list is replayed before the reset
commonInit_ListFirst(cmdList, soft) ==
    <<lcd_cs0>>
    \o commandList(cmdList).t
    \o (IF soft
        THEN <<st7735_send_cmd(ST7735_SWRESET), delay_ms(500)>>
        ELSE <<lcd_rst1, delay_ms(500), lcd_rst0, delay_ms(500), lcd_rst1, delay_ms(500)>>)

commonInit(cmdList, soft) ==
    <<lcd_cs0>>
    \o (IF soft
        THEN <<st7735_send_cmd(ST7735_SWRESET), delay_ms(500)>>
        ELSE <<lcd_rst1, delay_ms(500), lcd_rst0, delay_ms(500), lcd_rst1, delay_ms(500)>>)
    \o commandList(cmdList).t

\* mutant: the black tab is given the green-tab table
initRSecondTable_BlackAsGreen(options) ==
    IF options \in {INITR_GREENTAB, INITR_BLACKTAB} THEN Rcmd2green ELSE Rcmd2red

(* the variant's second table: green tab only, else the red-tab table *)
initRSecondTable(options) ==
    IF options = INITR_GREENTAB THEN Rcmd2green ELSE Rcmd2red

(* the byte of the extra MADCTL write for the black tab *)
initRBlackMadctl == 192

(* if black, change MADCTL color filter *)
initRBlackTail(options) ==
    IF options = INITR_BLACKTAB
    THEN <<st7735_send_cmd(ST7735_MADCTL), st7735_send_data(initRBlackMadctl)>>
    ELSE <<>>

(* the transport trace of _st7735_initR(options) *)
initRTrace(options, soft) ==
    <<delay_ms(50)>>
    \o commonInit(Rcmd1, soft)
    \o commandList(initRSecondTable(options)).t
    \o commandList(Rcmd3).t
    \o initRBlackTail(options)

(* colstart/rowstart after _st7735_initR(options) *)
initRColstart(options, cs) == IF options = INITR_GREENTAB THEN 2 ELSE cs
initRRowstart(options, rs) == IF options = INITR_GREENTAB THEN 1 ELSE rs

(***************************************************************************)
(* _st7735_setAddrWindow.  Its four parameters are uint8_t: the caller's   *)
(* int arguments are converted on the call.                                *)
(***************************************************************************)
AddrWindowArgs(a) == <<U8(a[1]), U8(a[2]), U8(a[3]), U8(a[4])>>

\* mutant: the column end is sent before the column start
setAddrWindow_EndFirst(x0, y0, x1, y1, cs, rs) ==
    << st7735_send_cmd(ST7735_CASET),
       st7735_send_data(0),
       st7735_send_data(x1 + cs),
       st7735_send_data(0),
       st7735_send_data(x0 + cs),
       st7735_send_cmd(ST7735_RASET),
       st7735_send_data(0),
       st7735_send_data(y0 + rs),
       st7735_send_data(0),
       st7735_send_data(y1 + rs),
       st7735_send_cmd(ST7735_RAMWR) >>

setAddrWindow(x0, y0, x1, y1, cs, rs) ==
    << st7735_send_cmd(ST7735_CASET),
       st7735_send_data(0),
       st7735_send_data(x0 + cs),
       st7735_send_data(0),
       st7735_send_data(x1 + cs),
       st7735_send_cmd(ST7735_RASET),
       st7735_send_data(0),
       st7735_send_data(y0 + rs),
       st7735_send_data(0),
       st7735_send_data(y1 + rs),
       st7735_send_cmd(ST7735_RAMWR) >>

(* _st7735_pushColor: high byte, then low byte *)
pushColor(color) == <<st7735_send_data(color \div 256), st7735_send_data(color % 256)>>

(***************************************************************************)
(* Loop counts.  while (n--) on an int16_t runs n times for n >= 0; for a  *)
(* negative n it counts down through INT16_MIN, wraps to INT16_MAX and     *)
(* stops at 0: 65536 + n times.  for (i = n; i > 0; i--) runs n times for  *)
(* n > 0 and not at all otherwise.                                         *)
(***************************************************************************)
whileCount(n) == IF n >= 0 THEN n ELSE 65536 + n
forCount(n) == IF n > 0 THEN n ELSE 0

(***************************************************************************)
(* _st7735_drawPixel                                                       *)
(***************************************************************************)
\* mutant: the lower bounds are not tested, as in the line functions
drawPixelReturns_NoLowerBound(x, y, W, H) == (x >= W) \/ (y >= H)

drawPixelReturns(x, y, W, H) == (x < 0) \/ (x >= W) \/ (y < 0) \/ (y >= H)
drawPixelWindow(x, y) == <<x, y, x + 1, y + 1>>

(***************************************************************************)
(* _st7735_drawFastVLine / _st7735_drawFastHLine                           *)
(***************************************************************************)
drawFastVLineReturns(x, y, W, H) == (x >= W) \/ (y >= H)
\* mutant: a line ending one past the bound is not clamped
drawFastVLineClamp_LateByOne(y, h, H) == IF (y + h - 1) > H THEN I16(H - y) ELSE h

drawFastVLineClamp(y, h, H) == IF (y + h - 1) >= H THEN I16(H - y) ELSE h
drawFastVLineWindow(x, y, h) == <<x, y, x, y + h - 1>>

drawFastHLineReturns(x, y, W, H) == (x >= W) \/ (y >= H)
drawFastHLineClamp(x, w, W) == IF (x + w - 1) >= W THEN I16(W - x) ELSE w
drawFastHLineWindow(x, y, w) == <<x, y, x + w - 1, y>>

(***************************************************************************)
(* _st7735_fillRect / _st7735_fillScreen                                   *)
(***************************************************************************)
fillRectReturns(x, y, W, H) == (x >= W) \/ (y >= H)
\* mutant: the width is clamped one short of the bound
fillRectClampW_OffByOne(x, w, W) == IF (x + w - 1) >= W THEN I16(W - x - 1) ELSE w

fillRectClampW(x, w, W) == IF (x + w - 1) >= W THEN I16(W - x) ELSE w
fillRectClampH(y, h, H) == IF (y + h - 1) >= H THEN I16(H - y) ELSE h
fillRectWindow(x, y, w, h) == <<x, y, x + w - 1, y + h - 1>>
fillRectPushes(w, h) == forCount(h) * forCount(w)

\* mutant: the last column and row are passed as the lengths
fillScreenArgs_OffByOne(W, H) == <<0, 0, I16(W - 1), I16(H - 1)>>

(* the int16_t arguments _st7735_fillScreen passes: 0, 0, _width, _height *)
fillScreenArgs(W, H) == <<0, 0, I16(W), I16(H)>>

(***************************************************************************)
(* _st7735_setRotation                                                     *)
(***************************************************************************)
\* mutant: rotation 3 is sent without the row/column exchange flag
setRotationMadctl_NoExchange(rotation) ==
    CASE rotation = 0 -> BitOr(BitOr(MADCTL_MX, MADCTL_MY), MADCTL_RGB)
      [] rotation = 1 -> BitOr(BitOr(MADCTL_MY, MADCTL_MV), MADCTL_RGB)
      [] rotation = 2 -> MADCTL_RGB
      [] rotation = 3 -> BitOr(MADCTL_MX, MADCTL_RGB)

setRotationMadctl(rotation) ==
    CASE rotation = 0 -> BitOr(BitOr(MADCTL_MX, MADCTL_MY), MADCTL_RGB)
      [] rotation = 1 -> BitOr(BitOr(MADCTL_MY, MADCTL_MV), MADCTL_RGB)
      [] rotation = 2 -> MADCTL_RGB
      [] rotation = 3 -> BitOr(BitOr(MADCTL_MX, MADCTL_MV), MADCTL_RGB)

setRotationWidth(rotation) ==
    IF rotation \in {0, 2} THEN ST7735_TFTWIDTH ELSE ST7735_TFTHEIGHT

setRotationHeight(rotation) ==
    IF rotation \in {0, 2} THEN ST7735_TFTHEIGHT ELSE ST7735_TFTWIDTH

\* mutant: a rotation above 3 is clamped to 3 instead of wrapped
setRotationTrace_Clamped(m) ==
    <<st7735_send_cmd(ST7735_MADCTL),
      st7735_send_data(setRotationMadctl(IF U8(m) > 3 THEN 3 ELSE U8(m)))>>

setRotationTrace(m) ==
    <<st7735_send_cmd(ST7735_MADCTL), st7735_send_data(setRotationMadctl(U8(m) % 4))>>

(***************************************************************************)
(* The controller's memory-access-control register: the data byte that     *)
(* followed the last MADCTL command of a trace, else its previous value.   *)
(***************************************************************************)
NoByte == -1

MadctlWrites(t) ==
    {i \in 1..(Len(t) - 1) : t[i] = st7735_send_cmd(ST7735_MADCTL) /\ t[i + 1][1] = "data"}

ControllerMadctl(t, prev) ==
    IF MadctlWrites(t) = {} THEN prev
    ELSE t[(CHOOSE i \in MadctlWrites(t) : \A j \in MadctlWrites(t) : j <= i) + 1][2]

(***************************************************************************)
(* Bounds and input sets.                                                  *)
(***************************************************************************)
\* coordinates and lengths are sampled within Edge of 0, of the two panel
\* dimensions, and at the two ends of int16_t
Edge == 1
\* initialize is called with options 0..MaxOption
MaxOption == 3

Near(c, e) == (c - e)..(c + e)

FineInt16 ==
    {INT16_MIN, INT16_MAX} \cup Near(0, Edge)
        \cup Near(ST7735_TFTWIDTH, Edge) \cup Near(ST7735_TFTHEIGHT, Edge)

CoarseXY == {0 - 1, 0, ST7735_TFTWIDTH - 1, ST7735_TFTHEIGHT}
CoarseLen == {0 - 1, 0, 1, ST7735_TFTHEIGHT + 1}

\* 0xF800 and 0x1234
Colors == {63488, 4660}

Bytes == 0..255
ByteSamples == {0, 1, ST7735_TFTHEIGHT - 1, 255}

Options == 0..MaxOption

(***************************************************************************)
(* State.                                                                  *)
(***************************************************************************)
VARIABLES
    _width,      \* static uint16_t _width
    _height,     \* static uint16_t _height
    colstart,    \* static int colstart
    rowstart,    \* static int rowstart
    softReset,   \* whether the build defines LCD_SOFT_RESET
    madctl,      \* the controller's memory-access-control register
    pc,          \* "idle": no call in progress; "returned": a call has just returned
    call,        \* the last call: <<function, arguments>>
    pre,         \* <<_width, _height, colstart, rowstart>> when the last call began
    window,      \* the uint8_t arguments the last call gave _st7735_setAddrWindow, or <<>>
    clamped,     \* the length(s) the last call used after its clamping, or <<>>
    trace,       \* the transport operations of the last call, the pixel stream excepted
    pushes,      \* how many times the last call ran _st7735_pushColor(color)
    color,       \* the color the last call pushed
    ret          \* the value the last call returned (getters)

vars ==
    <<_width, _height, colstart, rowstart, softReset, madctl, pc, call, pre,
      window, clamped, trace, pushes, color, ret>>

globals == <<_width, _height, colstart, rowstart>>

NoCall == <<"none", <<>>>>

Init ==
    /\ _width = ST7735_TFTWIDTH
    /\ _height = ST7735_TFTHEIGHT
    /\ colstart = 0
    /\ rowstart = 0
    /\ softReset \in BOOLEAN
    /\ madctl = NoByte
    /\ pc = "idle"
    /\ call = NoCall
    /\ pre = <<ST7735_TFTWIDTH, ST7735_TFTHEIGHT, 0, 0>>
    /\ window = <<>>
    /\ clamped = <<>>
    /\ trace = <<>>
    /\ pushes = 0
    /\ color = 0
    /\ ret = 0

(* a call begins from the caller's loop and is recorded *)
Idle == pc = "idle"

Enter(fn, args) ==
    /\ Idle
    /\ pc' = "returned"
    /\ call' = <<fn, args>>
    /\ pre' = globals
    /\ UNCHANGED softReset

(* what a drawing call leaves: it writes none of the globals *)
Drawn(returns, win, lens, n, c) ==
    /\ window' = IF returns THEN <<>> ELSE AddrWindowArgs(win)
    /\ clamped' = IF returns THEN <<>> ELSE lens
    /\ trace' = IF returns THEN <<>>
                ELSE LET a == AddrWindowArgs(win)
                     IN setAddrWindow(a[1], a[2], a[3], a[4], colstart, rowstart)
    /\ pushes' = IF returns THEN 0 ELSE n
    /\ color' = c
    /\ ret' = 0
    /\ madctl' = madctl
    /\ UNCHANGED globals

(* void _st7735_initR(uint8_t options) *)
InitR ==
    Idle /\ \E options \in Options :
        /\ Enter("initR", <<options>>)
        /\ trace' = initRTrace(options, softReset)
        /\ colstart' = initRColstart(options, colstart)
        /\ rowstart' = initRRowstart(options, rowstart)
        /\ madctl' = ControllerMadctl(trace', madctl)
        /\ window' = <<>> /\ clamped' = <<>> /\ pushes' = 0 /\ color' = 0 /\ ret' = 0
        /\ UNCHANGED <<_width, _height>>

\* mutant: the offsets are exchanged along with the width and height
SetRotation_SwapsOffsets ==
    Idle /\ \E m \in Bytes :
        /\ Enter("setRotation", <<m>>)
        /\ trace' = setRotationTrace(m)
        /\ _width' = setRotationWidth(U8(m) % 4)
        /\ _height' = setRotationHeight(U8(m) % 4)
        /\ colstart' = IF (U8(m) % 4) \in {1, 3} THEN rowstart ELSE colstart
        /\ rowstart' = IF (U8(m) % 4) \in {1, 3} THEN colstart ELSE rowstart
        /\ madctl' = ControllerMadctl(trace', madctl)
        /\ window' = <<>> /\ clamped' = <<>> /\ pushes' = 0 /\ color' = 0 /\ ret' = 0

(* void _st7735_setRotation(uint8_t m) *)
SetRotation ==
    Idle /\ \E m \in Bytes :
        /\ Enter("setRotation", <<m>>)
        /\ trace' = setRotationTrace(m)
        /\ _width' = setRotationWidth(U8(m) % 4)
        /\ _height' = setRotationHeight(U8(m) % 4)
        /\ madctl' = ControllerMadctl(trace', madctl)
        /\ window' = <<>> /\ clamped' = <<>> /\ pushes' = 0 /\ color' = 0 /\ ret' = 0
        /\ UNCHANGED <<colstart, rowstart>>

(* void _st7735_setAddrWindow(uint8_t x0, uint8_t y0, uint8_t x1, uint8_t y1) *)
SetAddrWindow ==
    Idle /\ \E x0 \in ByteSamples, y0 \in ByteSamples, x1 \in ByteSamples, y1 \in ByteSamples :
        /\ Enter("setAddrWindow", <<x0, y0, x1, y1>>)
        /\ Drawn(FALSE, <<x0, y0, x1, y1>>, <<>>, 0, 0)

(* void _st7735_pushColor(uint16_t color) *)
PushColor ==
    Idle /\ \E c \in Colors :
        /\ Enter("pushColor", <<c>>)
        /\ window' = <<>> /\ clamped' = <<>> /\ trace' = <<>>
        /\ pushes' = 1 /\ color' = c /\ ret' = 0
        /\ madctl' = madctl
        /\ UNCHANGED globals

(* void _st7735_drawPixel(int16_t x, int16_t y, uint16_t color) *)
DrawPixel(XY) ==
    Idle /\ \E x \in XY, y \in XY, c \in Colors :
        /\ Enter("drawPixel", <<x, y, c>>)
        /\ Drawn(drawPixelReturns(x, y, _width, _height), drawPixelWindow(x, y), <<>>, 1, c)

(* void _st7735_drawFastVLine(int16_t x, int16_t y, int16_t h, uint16_t color) *)
DrawFastVLine(XY, LEN) ==
    Idle /\ \E x \in XY, y \in XY, h \in LEN, c \in Colors :
        LET h2 == drawFastVLineClamp(y, h, _height)
        IN /\ Enter("drawFastVLine", <<x, y, h, c>>)
           /\ Drawn(drawFastVLineReturns(x, y, _width, _height),
                    drawFastVLineWindow(x, y, h2), <<h2>>, whileCount(h2), c)

(* void _st7735_drawFastHLine(int16_t x, int16_t y, int16_t w, uint16_t color) *)
DrawFastHLine(XY, LEN) ==
    Idle /\ \E x \in XY, y \in XY, w \in LEN, c \in Colors :
        LET w2 == drawFastHLineClamp(x, w, _width)
        IN /\ Enter("drawFastHLine", <<x, y, w, c>>)
           /\ Drawn(drawFastHLineReturns(x, y, _width, _height),
                    drawFastHLineWindow(x, y, w2), <<w2>>, whileCount(w2), c)

(* the body of _st7735_fillRect, shared with _st7735_fillScreen *)
FillRectBody(x, y, w, h, c) ==
    LET w2 == fillRectClampW(x, w, _width)
        h2 == fillRectClampH(y, h, _height)
    IN Drawn(fillRectReturns(x, y, _width, _height),
             fillRectWindow(x, y, w2, h2), <<w2, h2>>, fillRectPushes(w2, h2), c)

(* void _st7735_fillRect(int16_t x, int16_t y, int16_t w, int16_t h, uint16_t color) *)
FillRect(XY, LEN) ==
    Idle /\ \E x \in XY, y \in XY, w \in LEN, h \in LEN, c \in Colors :
        /\ Enter("fillRect", <<x, y, w, h, c>>)
        /\ FillRectBody(x, y, w, h, c)

(* void _st7735_fillScreen(uint16_t color) *)
FillScreen ==
    Idle /\ \E c \in Colors :
        LET a == fillScreenArgs(_width, _height)
        IN /\ Enter("fillScreen", <<c>>)
           /\ FillRectBody(a[1], a[2], a[3], a[4], c)

(* uint8_t _st7735_get_height(void) *)
GetHeight ==
    /\ Enter("get_height", <<>>)
    /\ ret' = U8(_height)
    /\ window' = <<>> /\ clamped' = <<>> /\ trace' = <<>> /\ pushes' = 0 /\ color' = 0
    /\ madctl' = madctl
    /\ UNCHANGED globals

(* uint8_t _st7735_get_width(void) *)
GetWidth ==
    /\ Enter("get_width", <<>>)
    /\ ret' = U8(_width)
    /\ window' = <<>> /\ clamped' = <<>> /\ trace' = <<>> /\ pushes' = 0 /\ color' = 0
    /\ madctl' = madctl
    /\ UNCHANGED globals

(* the caller goes on to its next call; the record of the last one is dropped *)
Return ==
    /\ pc = "returned"
    /\ pc' = "idle"
    /\ call' = NoCall
    /\ pre' = globals
    /\ window' = <<>> /\ clamped' = <<>> /\ trace' = <<>>
    /\ pushes' = 0 /\ color' = 0 /\ ret' = 0
    /\ UNCHANGED <<globals, softReset, madctl>>

(***************************************************************************)
(* Spec: the whole interface from the state after static initialization.   *)
(***************************************************************************)
Next ==
    \/ InitR
    \/ SetRotation
    \/ SetAddrWindow
    \/ PushColor
    \/ DrawPixel(CoarseXY)
    \/ DrawFastVLine(CoarseXY, CoarseLen)
    \/ DrawFastHLine(CoarseXY, CoarseLen)
    \/ FillRect(CoarseXY, CoarseLen)
    \/ FillScreen
    \/ GetHeight
    \/ GetWidth
    \/ Return

Spec == Init /\ [][Next]_vars

(***************************************************************************)
(* SpecDraw: the drawing primitives on their int16_t edge cases, from each *)
(* display state (geometry and offsets) that Spec reaches.                 *)
(***************************************************************************)
DisplayStates ==
    { <<ST7735_TFTWIDTH, ST7735_TFTHEIGHT, 0, 0>>,
      <<ST7735_TFTWIDTH, ST7735_TFTHEIGHT, 2, 1>>,
      <<ST7735_TFTHEIGHT, ST7735_TFTWIDTH, 0, 0>>,
      <<ST7735_TFTHEIGHT, ST7735_TFTWIDTH, 2, 1>> }

InitDraw ==
    /\ \E d \in DisplayStates :
           /\ _width = d[1]
           /\ _height = d[2]
           /\ colstart = d[3]
           /\ rowstart = d[4]
           /\ pre = d
           /\ madctl = setRotationMadctl(IF d[1] = ST7735_TFTWIDTH THEN 0 ELSE 1)
    /\ softReset = FALSE
    /\ pc = "idle"
    /\ call = NoCall
    /\ window = <<>>
    /\ clamped = <<>>
    /\ trace = <<>>
    /\ pushes = 0
    /\ color = 0
    /\ ret = 0

NextDraw ==
    \/ DrawPixel(FineInt16)
    \/ DrawFastVLine(FineInt16, FineInt16)
    \/ DrawFastHLine(FineInt16, FineInt16)
    \/ FillRect(FineInt16, FineInt16)
    \/ FillScreen
    \/ Return

SpecDraw == InitDraw /\ [][NextDraw]_vars

(* every display state Spec reaches is one SpecDraw starts from *)
TypeOK ==
    /\ globals \in DisplayStates
    /\ pc \in {"idle", "returned"}
    /\ madctl \in Bytes \cup {NoByte}
    /\ pushes \in Nat

(***************************************************************************)
(* Reading the record of the last call.                                    *)
(***************************************************************************)
Returned(fn) == pc = "returned" /\ call[1] = fn
Arg(i) == call[2][i]
PreWidth == pre[1]
PreHeight == pre[2]
PreColstart == pre[3]
PreRowstart == pre[4]
LineOrFill == {"drawFastVLine", "drawFastHLine", "fillRect"}
Silent == trace = <<>> /\ pushes = 0

(* the start coordinate (the first two arguments) lies outside the logical screen *)
StartOutside ==
    (Arg(1) < 0) \/ (Arg(1) >= PreWidth) \/ (Arg(2) < 0) \/ (Arg(2) >= PreHeight)

(* the given lengths of the last line or fill call: <<w, h>>, 1 where the call has none *)
GivenW == IF call[1] = "drawFastVLine" THEN 1 ELSE Arg(3)
GivenH == IF call[1] = "drawFastVLine" THEN Arg(3)
          ELSE IF call[1] = "fillRect" THEN Arg(4) ELSE 1

(* the last call emitted one address-window setup: two commands, eight data bytes,
   then the memory-write command *)
OneWindowSetup ==
    /\ Len(trace) = 11
    /\ trace[1] = <<"cmd", ST7735_CASET>>
    /\ trace[6] = <<"cmd", ST7735_RASET>>
    /\ trace[11] = <<"cmd", ST7735_RAMWR>>
    /\ \A i \in {2, 3, 4, 5, 7, 8, 9, 10} : trace[i][1] = "data"

(***************************************************************************)
(* C1: draw_pixel at a point outside the logical screen (x < 0, x >=       *)
(* logical_width, y < 0 or y >= logical_height), in any display state,     *)
(* issues no transport operation: no command, no data, no delay.           *)
(***************************************************************************)
C1_DrawPixelOutsideIsSilent ==
    (Returned("drawPixel") /\ StartOutside) => Silent

C1_Witness ==
    /\ Returned("drawPixel")
    /\ Arg(1) < 0
    /\ Arg(2) \in 0..(PreHeight - 1)
    /\ Silent

(***************************************************************************)
(* C2: for an in-bounds point, draw_pixel sets a 1x1 address window at     *)
(* (x,y), x0 = x1 = x and y0 = y1 = y before offsets, and streams exactly  *)
(* one color value.                                                        *)
(***************************************************************************)
C2_DrawPixelWindowIsOneByOne ==
    (Returned("drawPixel") /\ ~StartOutside) =>
        /\ window = <<Arg(1), Arg(2), Arg(1), Arg(2)>>
        /\ OneWindowSetup
        /\ pushes = 1

(***************************************************************************)
(* C3: fill_screen issues exactly one address-window setup (column-address *)
(* -set command, row-address-set command, 8 data bytes, one memory-write   *)
(* command) and then exactly logical_width * logical_height color pushes   *)
(* of two data bytes each, and nothing else.                               *)
(***************************************************************************)
C3_FillScreenExact ==
    Returned("fillScreen") =>
        /\ OneWindowSetup
        /\ pushes = PreWidth * PreHeight
        /\ Len(pushColor(color)) = 2
        /\ \A i \in 1..2 : pushColor(color)[i][1] = "data"

C3_Witness ==
    /\ Returned("fillScreen")
    /\ PreWidth = ST7735_TFTHEIGHT
    /\ pushes = ST7735_TFTHEIGHT * ST7735_TFTWIDTH

(***************************************************************************)
(* C4: draw_fast_hline, draw_fast_vline and fill_rect issue no transport   *)
(* operation whenever their start coordinate is outside the logical        *)
(* bounds: x < 0, x >= logical_width, y < 0 or y >= logical_height.        *)
(***************************************************************************)
C4_LineAndFillOutsideAreSilent ==
    (pc = "returned" /\ call[1] \in LineOrFill /\ StartOutside) => Silent

(***************************************************************************)
(* C5: a line or fill call that passes the initial bounds check and has    *)
(* start + length - 1 >= bound emits a window whose end coordinate is      *)
(* bound - 1, and pushes as many colors as the clamped length (for         *)
(* fill_rect: the clamped width times the clamped-or-given height).        *)
(***************************************************************************)
PassedCheck == ~((Arg(1) >= PreWidth) \/ (Arg(2) >= PreHeight))
OverflowsW == call[1] # "drawFastVLine" /\ Arg(1) + GivenW - 1 >= PreWidth
OverflowsH == call[1] # "drawFastHLine" /\ Arg(2) + GivenH - 1 >= PreHeight
ExpectedW == IF OverflowsW THEN PreWidth - Arg(1) ELSE GivenW
ExpectedH == IF OverflowsH THEN PreHeight - Arg(2) ELSE GivenH

C5_WindowEnds ==
    /\ OverflowsW => window[3] = PreWidth - 1
    /\ OverflowsH => window[4] = PreHeight - 1

C6_LengthsNeverNegative ==
    (pc = "returned" /\ call[1] \in LineOrFill /\ PassedCheck) =>
        /\ \A i \in 1..Len(clamped) : clamped[i] >= 0
        /\ call[1] # "drawFastVLine" => Arg(1) + clamped[1] <= PreWidth
        /\ call[1] # "drawFastHLine" => Arg(2) + clamped[Len(clamped)] <= PreHeight
        /\ window[3] >= window[1]
        /\ window[4] >= window[2]

(***************************************************************************)
(* C7: logical_width/logical_height always reflect the orientation most    *)
(* recently commanded to the controller (by set_rotation or by the         *)
(* initialization tables' memory-access-control byte): the native pair     *)
(* (128,160) for rotation 0 or 2, the swapped pair (160,128) for rotation  *)
(* 1 or 3.  Rotations 1 and 3 are the ones whose byte sets the row/column  *)
(* exchange bit.                                                           *)
(***************************************************************************)
ExchangeBit(b) == (b \div MADCTL_MV) % 2

C7_GeometryTracksOrientation ==
    madctl # NoByte =>
        <<_width, _height>> =
            IF ExchangeBit(madctl) = 0
            THEN <<ST7735_TFTWIDTH, ST7735_TFTHEIGHT>>
            ELSE <<ST7735_TFTHEIGHT, ST7735_TFTWIDTH>>

(***************************************************************************)
(* C8: whenever initialize(variant) completes, the offsets are that        *)
(* variant's pair, (2,1) for GreenTab and (0,0) for RedTab, and a          *)
(* following draw_pixel(0,0,0xF800) emits a column-address-set starting at *)
(* col_offset, a row-address-set starting at row_offset, the memory-write  *)
(* command and the data bytes 0xF8, 0x00.                                  *)
(***************************************************************************)
VariantOffsets(options) == IF options = INITR_GREENTAB THEN <<2, 1>> ELSE <<0, 0>>

\* what draw_pixel(0,0,0xF800) emits in the current state
PixelAtOrigin ==
    LET a == AddrWindowArgs(drawPixelWindow(0, 0))
    IN IF drawPixelReturns(0, 0, _width, _height) THEN <<>>
       ELSE setAddrWindow(a[1], a[2], a[3], a[4], colstart, rowstart) \o pushColor(63488)

C8_InitializeSetsVariantOffsets ==
    (Returned("initR") /\ Arg(1) \in {INITR_GREENTAB, INITR_REDTAB}) =>
        /\ <<colstart, rowstart>> = VariantOffsets(Arg(1))
        /\ Len(PixelAtOrigin) = 13
        /\ PixelAtOrigin[1] = <<"cmd", ST7735_CASET>>
        /\ PixelAtOrigin[2] = <<"data", 0>>
        /\ PixelAtOrigin[3] = <<"data", VariantOffsets(Arg(1))[1]>>
        /\ PixelAtOrigin[6] = <<"cmd", ST7735_RASET>>
        /\ PixelAtOrigin[7] = <<"data", 0>>
        /\ PixelAtOrigin[8] = <<"data", VariantOffsets(Arg(1))[2]>>
        /\ PixelAtOrigin[11] = <<"cmd", ST7735_RAMWR>>
        /\ PixelAtOrigin[12] = <<"data", 248>>
        /\ PixelAtOrigin[13] = <<"data", 0>>

(***************************************************************************)
(* C9: for the BlackTab variant, the extra memory-access-control data byte *)
(* sent at the end of initialization differs from the memory-access-       *)
(* control argument already sent by Rcmd1 in exactly the color-order bit   *)
(* (0x08) and in no other bit.                                             *)
(***************************************************************************)
FirstMadctlByte(t) ==
    t[(CHOOSE i \in MadctlWrites(t) : \A j \in MadctlWrites(t) : i <= j) + 1][2]

C9_BlackTabFlipsColorOrderOnly ==
    (Returned("initR") /\ Arg(1) = INITR_BLACKTAB) =>
        /\ Cardinality(MadctlWrites(trace)) = 2
        /\ trace[Len(trace) - 1] = <<"cmd", ST7735_MADCTL>>
        /\ BitXor(trace[Len(trace)][2], FirstMadctlByte(trace)) = MADCTL_BGR

(***************************************************************************)
(* C10: the transport trace of initialize(BlackTab) is the transport trace *)
(* of initialize(RedTab) followed by one memory-access-control command and *)
(* one data byte, and the call leaves col_offset/row_offset as             *)
(* initialize(RedTab) would.                                               *)
(***************************************************************************)
C10_BlackTabIsRedTabPlusMadctl ==
    (Returned("initR") /\ Arg(1) = INITR_BLACKTAB) =>
        LET red == initRTrace(INITR_REDTAB, softReset)
        IN /\ Len(trace) = Len(red) + 2
           /\ SubSeq(trace, 1, Len(red)) = red
           /\ trace[Len(red) + 1] = <<"cmd", ST7735_MADCTL>>
           /\ trace[Len(red) + 2][1] = "data"
           /\ colstart = initRColstart(INITR_REDTAB, PreColstart)
           /\ rowstart = initRRowstart(INITR_REDTAB, PreRowstart)

C10_Witness ==
    /\ Returned("initR")
    /\ Arg(1) = INITR_BLACKTAB
    /\ PreColstart = 2
    /\ colstart = 2
    /\ Len(trace) > 2

(***************************************************************************)
(* C11: for every uint8 m, set_rotation(m) and set_rotation(m+4), m+4      *)
(* taken as a uint8 (wrapping past 255), send the identical memory-access- *)
(* control byte and leave identical (logical_width, logical_height); the   *)
(* effective rotation is m mod 4.                                          *)
(***************************************************************************)
\* the bytes of rotations 0..3: MX|MY, MY|MV, 0, MX|MV
RotationBytes == <<192, 160, 0, 96>>

C11_RotationPeriodFour ==
    Returned("setRotation") =>
        LET m == Arg(1)
            m4 == U8(m + 4)
        IN /\ trace = setRotationTrace(m4)
           /\ <<_width, _height>> = <<setRotationWidth(m4 % 4), setRotationHeight(m4 % 4)>>
           /\ trace[2] = <<"data", RotationBytes[(m % 4) + 1]>>
           /\ <<_width, _height>> =
                  IF (m % 4) \in {0, 2}
                  THEN <<ST7735_TFTWIDTH, ST7735_TFTHEIGHT>>
                  ELSE <<ST7735_TFTHEIGHT, ST7735_TFTWIDTH>>

\* set_rotation(253): m + 4 wraps to 1
C11_Witness ==
    /\ Returned("setRotation")
    /\ Arg(1) = 253
    /\ trace[2] = <<"data", 160>>
    /\ _width = ST7735_TFTHEIGHT

(***************************************************************************)
(* SpecSeq: the sequencer on well-formed encoded tables.  A table is built *)
(* from a list of entries (opcode, arguments, optional delay byte) in the  *)
(* encoding of the tables above: count, then per entry the opcode, a       *)
(* control byte (bit 7: delay follows; bits 0-6: argument count), the      *)
(* arguments and, if flagged, the delay byte.                              *)
(***************************************************************************)
\* at most MaxCmds entries per table, at most MaxArgs arguments per entry
MaxCmds == 2
MaxArgs == 2

\* the i-th argument byte of an entry: 255, 170, 85, 0, ... (distinct in order)
ArgByte(i) == (255 - 85 * (i - 1)) % 256

\* an entry without a post-command delay carries no delay byte (delay = 0 here)
Entries ==
    { e \in [ opcode : {ST7735_SWRESET, ST7735_MADCTL},
              args : {[i \in 1..n |-> ArgByte(i)] : n \in 0..MaxArgs},
              has_post_delay : BOOLEAN,
              delay : {0, 10, 255} ] : e.has_post_delay \/ e.delay = 0 }

EntryLists == UNION {[1..n -> Entries] : n \in 0..MaxCmds}

EncodeEntry(e) ==
    <<e.opcode, Len(e.args) + (IF e.has_post_delay THEN DELAY ELSE 0)>>
    \o e.args
    \o (IF e.has_post_delay THEN <<e.delay>> ELSE <<>>)

RECURSIVE EncodeEntries(_)
EncodeEntries(es) ==
    IF es = <<>> THEN <<>> ELSE EncodeEntry(Head(es)) \o EncodeEntries(Tail(es))

Encode(es) == <<Len(es)>> \o EncodeEntries(es)

(* static void commandList(const uint8_t *addr), run on an encoded table *)
CommandList ==
    Idle /\ \E es \in EntryLists :
        LET run == commandList(Encode(es))
        IN /\ Enter("commandList", <<es, Encode(es)>>)
           /\ trace' = run.t
           /\ ret' = run.addr
           /\ madctl' = ControllerMadctl(trace', madctl)
           /\ window' = <<>> /\ clamped' = <<>> /\ pushes' = 0 /\ color' = 0
           /\ UNCHANGED globals

NextSeq ==
    \/ CommandList
    \/ Return

SpecSeq == Init /\ [][NextSeq]_vars

(***************************************************************************)
(* C12: for every well-formed encoded table, the sequencer's trace is the  *)
(* reference decoding: per entry, in table order, one send_command(opcode),*)
(* each argument via send_data in order, then, iff bit 7 of the control    *)
(* byte is set, one delay of 500 ms when the delay byte is 255 and of the  *)
(* encoded value otherwise (0 included); it reads exactly the bytes of the *)
(* table and sends nothing else.                                           *)
(***************************************************************************)
ReferenceEntry(e) ==
    <<(<<"cmd", e.opcode>>)>>
    \o [i \in 1..Len(e.args) |-> <<"data", e.args[i]>>]
    \o (IF e.has_post_delay
        THEN <<(<<"delay", IF e.delay = 255 THEN 500 ELSE e.delay>>)>>
        ELSE <<>>)

RECURSIVE Reference(_)
Reference(es) ==
    IF es = <<>> THEN <<>> ELSE ReferenceEntry(Head(es)) \o Reference(Tail(es))

C12_SequencerIsReferenceDecoding ==
    Returned("commandList") =>
        /\ trace = Reference(Arg(1))
        /\ ret = Len(Arg(2)) + 1
        /\ \A t \in {Rcmd1, Rcmd2green, Rcmd2red, Rcmd3} : commandList(t).addr = Len(t) + 1

\* two entries, the first with two arguments and the 255 sentinel, the second
\* with a delay byte of 0
C12_Witness ==
    /\ Returned("commandList")
    /\ Len(Arg(1)) = 2
    /\ Len(Arg(1)[1].args) = 2
    /\ Arg(1)[1].has_post_delay
    /\ Arg(1)[1].delay = 255
    /\ Arg(1)[2].has_post_delay
    /\ Arg(1)[2].delay = 0
    /\ <<"delay", 500>> = trace[4]
    /\ <<"delay", 0>> = trace[Len(trace)]

(***************************************************************************)
(* C13: for all 8-bit x0,y0,x1,y1 and every reachable offset pair,         *)
(* set_address_window emits, in this order and nothing else: column-       *)
(* address-set, data 0x00, col_offset+x0, 0x00, col_offset+x1; row-        *)
(* address-set, data 0x00, row_offset+y0, 0x00, row_offset+y1; memory-     *)
(* write.  Each pair of data bytes, read as (high, low), is the sum of     *)
(* offset and coordinate with the high byte zero.                          *)
(***************************************************************************)
\* the 16-bit value of the data bytes at positions i, i+1 of the trace
Word(i) == trace[i][2] * 256 + trace[i + 1][2]

WindowFrame ==
    /\ Len(trace) = 11
    /\ trace[1] = <<"cmd", ST7735_CASET>>
    /\ trace[6] = <<"cmd", ST7735_RASET>>
    /\ trace[11] = <<"cmd", ST7735_RAMWR>>
    /\ \A i \in {2, 3, 4, 5, 7, 8, 9, 10} : trace[i][1] = "data" /\ trace[i][2] \in Bytes
    /\ \A i \in {2, 4, 7, 9} : trace[i][2] = 0
    /\ pushes = 0

\* the claim as stated
C13_WindowBytesAreSums ==
    Returned("setAddrWindow") =>
        /\ WindowFrame
        /\ Word(2) = PreColstart + Arg(1)
        /\ Word(4) = PreColstart + Arg(3)
        /\ Word(7) = PreRowstart + Arg(2)
        /\ Word(9) = PreRowstart + Arg(4)

\* amended: the low bytes are the sums modulo 256
C13_WindowBytesAreSumsMod256 ==
    Returned("setAddrWindow") =>
        /\ WindowFrame
        /\ Word(2) = (PreColstart + Arg(1)) % 256
        /\ Word(4) = (PreColstart + Arg(3)) % 256
        /\ Word(7) = (PreRowstart + Arg(2)) % 256
        /\ Word(9) = (PreRowstart + Arg(4)) % 256
        /\ \A i \in {1, 3} : PreColstart + Arg(i) <= 255 => Word(i + 1) = PreColstart + Arg(i)
        /\ \A i \in {2, 4} : PreRowstart + Arg(i) <= 255 => Word(i + 5) = PreRowstart + Arg(i)

\* a window on the panel with the green-tab offsets, distinct start and end
C13_Witness ==
    /\ Returned("setAddrWindow")
    /\ PreColstart = 2
    /\ PreRowstart = 1
    /\ call[2] = <<0, 1, 159, 255>>
    /\ Word(2) = 2
    /\ Word(4) = 161
    /\ Word(7) = 2
    /\ Word(9) = 0

(***************************************************************************)
(* C14: in every initialize call the reset protocol runs exactly once and  *)
(* before any byte of any command table: the device is selected, then      *)
(* (hardware strategy) the reset line is driven high, low, high with a     *)
(* fixed settle delay after each step, or (software strategy) one          *)
(* software-reset command is sent followed by one fixed settle delay; the  *)
(* two strategies are never both performed in one call.                    *)
(***************************************************************************)
HardwareReset ==
    << <<"rst", 1>>, <<"delay", 500>>, <<"rst", 0>>, <<"delay", 500>>,
       <<"rst", 1>>, <<"delay", 500>> >>

SoftwareReset == << <<"cmd", ST7735_SWRESET>>, <<"delay", 500>> >>

\* where a pattern occurs in the trace
Occurrences(p) ==
    {i \in 1..(Len(trace) - Len(p) + 1) : SubSeq(trace, i, i + Len(p) - 1) = p}

\* where the device is selected
Selects == {i \in 1..Len(trace) : trace[i][1] = "cs"}

C14_ResetOnceBeforeTables ==
    Returned("initR") =>
        LET protocol == IF softReset THEN SoftwareReset ELSE HardwareReset
            other == IF softReset THEN HardwareReset ELSE SoftwareReset
            last == 2 + Len(protocol)
        IN /\ Selects = {2}
           /\ trace[1][1] = "delay"
           /\ Occurrences(protocol) = {3}
           /\ Occurrences(other) = {}
           /\ \A i \in (last + 1)..Len(trace) : trace[i][1] \in {"cmd", "data", "delay"}
           /\ \A i \in 1..last : trace[i][1] \in {"cmd", "data"} => (softReset /\ i = 3)
           /\ softReset => \A i \in 1..Len(trace) : trace[i][1] # "rst"
           /\ trace[last + 1] = <<"cmd", Rcmd1[2]>>

\* the hardware strategy, followed by the first command of Rcmd1
C14_Witness ==
    /\ Returned("initR")
    /\ ~softReset
    /\ SubSeq(trace, 2, 8) = << <<"cs", 0>> >> \o HardwareReset
    /\ trace[9] = <<"cmd", ST7735_SWRESET>>

(***************************************************************************)
(* C15: initialize(variant) replays the tables in the fixed order Rcmd1    *)
(* (complete), then exactly one of Rcmd2green (iff variant = GreenTab) or  *)
(* Rcmd2red (otherwise), then Rcmd3 (complete), with no byte of one table  *)
(* interleaved with another, and the variant's offsets are in force before *)
(* initialize returns.                                                     *)
(***************************************************************************)
\* the trace after the select and the reset protocol
AfterReset == SubSeq(trace, (IF softReset THEN 5 ELSE 9), Len(trace))

\* the replay of the three tables, one after the other
TablesInOrder(options) ==
    commandList(Rcmd1).t
    \o commandList(IF options = INITR_GREENTAB THEN Rcmd2green ELSE Rcmd2red).t
    \o commandList(Rcmd3).t

\* the table part of the claim: it holds of every initialize call
C15_TableOrder ==
    Returned("initR") =>
        /\ Len(AfterReset) >= Len(TablesInOrder(Arg(1)))
        /\ SubSeq(AfterReset, 1, Len(TablesInOrder(Arg(1)))) = TablesInOrder(Arg(1))
        /\ Len(AfterReset) - Len(TablesInOrder(Arg(1))) = IF Arg(1) = INITR_BLACKTAB THEN 2 ELSE 0

\* the claim as stated
C15_TablesInOrderAndOffsetsInForce ==
    Returned("initR") =>
        /\ C15_TableOrder
        /\ <<colstart, rowstart>> = VariantOffsets(Arg(1))

(***************************************************************************)
(* C16: col_offset/row_offset are changed by no operation other than       *)
(* initialize (set_rotation, set_address_window, push_color, draw_pixel,   *)
(* the line and fill operations and the getters leave them unchanged), and *)
(* logical_width/logical_height are changed by no operation other than     *)
(* set_rotation.                                                           *)
(***************************************************************************)
C16_FrameConditions ==
    pc = "returned" =>
        /\ call[1] # "initR" => (colstart = PreColstart /\ rowstart = PreRowstart)
        /\ call[1] # "setRotation" => (_width = PreWidth /\ _height = PreHeight)

\* a rotation that exchanges width and height while the green-tab offsets stay
C16_Witness ==
    /\ Returned("setRotation")
    /\ PreWidth = ST7735_TFTWIDTH
    /\ _width = ST7735_TFTHEIGHT
    /\ PreColstart = 2
    /\ PreRowstart = 1
    /\ colstart = 2
    /\ rowstart = 1

(***************************************************************************)
(* C17: every drawing call (draw_pixel, draw_fast_hline, draw_fast_vline,  *)
(* fill_rect, fill_screen) runs to completion for all 16-bit signed        *)
(* arguments, zero and negative lengths included, and before returning     *)
(* pushes at most logical_width * logical_height color values.             *)
(***************************************************************************)
DrawingCalls == {"drawPixel", "drawFastVLine", "drawFastHLine", "fillRect", "fillScreen"}

C17_PushesAtMostTheScreen ==
    (pc = "returned" /\ call[1] \in DrawingCalls) =>
        /\ pushes \in Nat
        /\ pushes <= PreWidth * PreHeight

(***************************************************************************)
(* C18: for every uint8 m, set_rotation(m) emits exactly two transport     *)
(* operations, the memory-access-control command followed by one data      *)
(* byte; the row/column-exchange bit (0x20) of that byte is set exactly    *)
(* when the call leaves logical_width/logical_height swapped relative to   *)
(* the native orientation; the four rotations send four pairwise distinct  *)
(* bytes.                                                                  *)
(***************************************************************************)
C18_RotationByte ==
    Returned("setRotation") =>
        /\ Len(trace) = 2
        /\ trace[1] = <<"cmd", ST7735_MADCTL>>
        /\ trace[2][1] = "data"
        /\ trace[2][2] \in Bytes
        /\ (ExchangeBit(trace[2][2]) = 1) <=>
               (<<_width, _height>> = <<ST7735_TFTHEIGHT, ST7735_TFTWIDTH>>)
        /\ (ExchangeBit(trace[2][2]) = 0) <=>
               (<<_width, _height>> = <<ST7735_TFTWIDTH, ST7735_TFTHEIGHT>>)
        /\ \A r \in 0..3 : r # Arg(1) % 4 => setRotationTrace(r)[2] # trace[2]
        /\ pushes = 0

\* rotation 3 from the native orientation
C18_Witness ==
    /\ Returned("setRotation")
    /\ Arg(1) % 4 = 3
    /\ PreWidth = ST7735_TFTWIDTH
    /\ _width = ST7735_TFTHEIGHT
    /\ ExchangeBit(trace[2][2]) = 1

(***************************************************************************)
(* C19: for every draw_fast_hline, draw_fast_vline and fill_rect call      *)
(* whose start coordinate is inside the logical bounds and whose length(s) *)
(* are at least 1: exactly one address window is emitted, it lies inside   *)
(* the logical screen (x <= x1 < logical_width and y <= y1 <               *)
(* logical_height before offsets), and the number of color values pushed   *)
(* equals the window's pixel count (x1 - x0 + 1) * (y1 - y0 + 1), each as  *)
(* high byte then low byte.                                                *)
(***************************************************************************)
C19_WindowInsideAndFilled ==
    (pc = "returned" /\ call[1] \in LineOrFill /\ ~StartOutside /\ GivenW >= 1 /\ GivenH >= 1) =>
        /\ OneWindowSetup
        /\ window[1] = Arg(1)
        /\ window[2] = Arg(2)
        /\ Arg(1) <= window[3] /\ window[3] < PreWidth
        /\ Arg(2) <= window[4] /\ window[4] < PreHeight
        /\ trace[3] = <<"data", (PreColstart + window[1]) % 256>>
        /\ trace[5] = <<"data", (PreColstart + window[3]) % 256>>
        /\ trace[8] = <<"data", (PreRowstart + window[2]) % 256>>
        /\ trace[10] = <<"data", (PreRowstart + window[4]) % 256>>
        /\ pushes = (window[3] - window[1] + 1) * (window[4] - window[2] + 1)
        /\ pushColor(color) = << <<"data", color \div 256>>, <<"data", color % 256>> >>

\* a vertical line that starts on the screen and ends exactly one past it
C19_Witness ==
    /\ Returned("drawFastVLine")
    /\ Arg(2) = 1
    /\ Arg(3) = PreHeight
    /\ window[4] = PreHeight - 1
    /\ pushes = PreHeight - 1

====
